---- MODULE Spec2Model ----
(***************************************************************************)
(* Transport layer of gortp: the multicast backend (two revisions of       *)
(* TransportMulticast, one binding with net.ListenConfig + JoinGroup, one  *)
(* with net.ListenMulticastUDP) and the TCP backend, with their receive    *)
(* loops and the cooperative shutdown protocol over the stop flag and the  *)
(* end channel.                                                            *)
(*                                                                         *)
(* One backend instance is modelled.  The owner calls the exported methods *)
(* in any order; every goroutine the code starts (receive loops, the TCP   *)
(* setup goroutine) is a process with a program counter, and one action is *)
(* one step between two accesses to shared state.  Memory is sequentially  *)
(* consistent: the goroutines' accesses to the unsynchronised fields       *)
(* interleave in some total order.                                         *)
(***************************************************************************)
EXTENDS Integers, Sequences, FiniteSets, TLC

(* ----------------------------- bounds ---------------------------------- *)
MaxListen == 2      \* calls of ListenOnTransports on the instance
MaxArrive == 2      \* datagrams / TCP frames the peer sends in total
MaxChanCap == 1     \* capacity of the owner's end channel
MaxLate == 2        \* OnRecvData calls counted after a CloseRecv

(* -------------------------- program constants -------------------------- *)
\* size of the loop's read buffer and of a packet's buffer (model scale)
defaultBufferSize == 4
\* values sent on the end channel
DataTransportRecvStopped == 1
CtrlTransportRecvStopped == 2

Backends == {"MulticastLC", "MulticastLM", "TCP"}
Ids == 1..MaxListen
Nil == 0

Min(a, b) == IF a < b THEN a ELSE b

\* Go's slice s[lo:hi]: 0-based, hi exclusive
Slice(s, lo, hi) == SubSeq(s, lo + 1, hi)

PeerAddr == [IP |-> "peer", Port |-> 5004]
NoAddr == [IP |-> "", Port |-> 0]

\* payloads the peer sends: empty, short, and one longer than the buffer
Oversize == [i \in 1..(defaultBufferSize + 1) |-> 1]
UdpPayloads == {<<>>, <<7, 9>>, Oversize}
TcpPayloads == {<<7>>}

\* RTP-over-TCP framing as the peer writes it: 2-byte big-endian length, payload
Frame(p) == <<Len(p) \div 256, Len(p) % 256>> \o p

VARIABLES
  backend,        \* which backend the instance is
  chanCap,        \* capacity of the channel the owner made
  callUpper,      \* tp.callUpper: "self", "nil" or "upper"
  dataRecvStop,   \* TransportCommon.dataRecvStop
  ctrlRecvStop,   \* TransportCommon.ctrlRecvStop
  transportEnd,   \* TransportCommon.transportEnd: "nil" or "ch"
  dataConn,       \* tp.dataConn: Nil or the id of a socket
  remoteAddrRtp,  \* tp.remoteAddrRtp (TCP): NoAddr (nil) or an address
  sock,           \* sockets by id: state, receive queue, times closed
  loop,           \* receive-loop goroutines by id
  setup,          \* TCP setup goroutines by id
  ncalls,         \* number of ListenOnTransports calls made so far
  rets,           \* per call, what ListenOnTransports returned: "nil" or "err"
  lastOut,        \* what the steps of the call that has just returned did;
                  \* every later step of any goroutine forgets it
  chanBuf,        \* buffer of the end channel
  received,       \* the values the owner received from the end channel
  upcall,         \* per loop, the OnRecvData call in progress (or NoUpcall)
  frames,         \* per connection, the payloads the TCP peer wrote, in order
  arrived,        \* number of datagrams / frames sent by the peer
  stopReq,        \* the calls that had returned nil, with the end channel installed,
                  \* when CloseRecv was called
  late,           \* per loop: -1, or, once CloseRecv was called with the loop
                  \* inside its for-loop and until the loop leaves it, the
                  \* OnRecvData calls the loop has begun since
  crashed         \* a goroutine panicked: the process is gone

config == <<backend, chanCap>>
fields == <<callUpper, dataRecvStop, ctrlRecvStop, transportEnd, dataConn, remoteAddrRtp>>
procs  == <<sock, loop, setup>>
ghost  == <<ncalls, rets, frames, arrived, stopReq, late>>
chan   == <<chanBuf, received>>

vars == <<config, fields, procs, ghost, chan, upcall, crashed, lastOut>>

\* CloseRecv has returned at least once (nothing ever clears ctrlRecvStop: no
\* control loop is started by any backend)
closeCalled == ctrlRecvStop

NoPkt == [inUse |-> 0, buffer |-> <<>>,
          fromAddr |-> [IpAddr |-> "", DataPort |-> 0, CtrlPort |-> 0]]

\* newDataPacket / newCtrlPacket: a zeroed packet of fixed capacity
newPacket == [inUse |-> 0,
              buffer |-> [i \in 1..defaultBufferSize |-> 0],
              fromAddr |-> [IpAddr |-> "", DataPort |-> 0, CtrlPort |-> 0]]

\* Go's copy(dst, src): min(len(dst), len(src)) elements
Copy(dst, src) ==
  [i \in 1..Len(dst) |-> IF i <= Len(src) THEN src[i] ELSE dst[i]]

IdleLoop == [pc |-> "none", n |-> 0, err |-> "nil", buf |-> <<>>, addr |-> NoAddr,
             off |-> 0, rp |-> NoPkt, conn |-> Nil, conns |-> {}, sends |-> 0]
NoUpcall == [to |-> "none", pkt |-> NoPkt]
IdleSetup == [pc |-> "none", lnOpen |-> FALSE]
NoSock == [state |-> "none", q |-> <<>>, closes |-> 0]
NoOut == [bind |-> "skip", join |-> "skip", reuse |-> "skip", tos |-> "skip"]

Init ==
  /\ backend \in Backends
  /\ chanCap = MaxChanCap
  /\ callUpper = "self"
  /\ dataRecvStop = FALSE
  /\ ctrlRecvStop = FALSE
  /\ transportEnd = "nil"
  /\ dataConn = Nil
  /\ remoteAddrRtp = NoAddr
  /\ sock = [i \in Ids |-> NoSock]
  /\ loop = [i \in Ids |-> IdleLoop]
  /\ setup = [i \in Ids |-> IdleSetup]
  /\ ncalls = 0
  /\ rets = [i \in Ids |-> "none"]
  /\ lastOut = NoOut
  /\ chanBuf = <<>>
  /\ received = {}
  /\ upcall = [i \in Ids |-> NoUpcall]
  /\ frames = [i \in Ids |-> <<>>]
  /\ arrived = 0
  /\ stopReq = {}
  /\ late = [i \in Ids |-> -1]
  /\ crashed = FALSE

(* ------------------------- ListenOnTransports -------------------------- *)
\* what the steps of one setup can do: "ok", "fail", or "skip" (not reached)
Outcome == [bind : {"ok", "fail", "skip"}, join : {"ok", "fail", "skip"},
            reuse : {"ok", "fail", "skip"}, tos : {"ok", "fail", "skip"}]

\* ListenConfig revision: SO_REUSEADDR in the Control hook, bind, JoinGroup, SetTOS
OutcomesLC ==
  {o \in Outcome :
     /\ o.reuse # "skip"
     /\ (o.bind = "skip") <=> (o.reuse = "fail")
     /\ (o.join = "skip") <=> (o.bind # "ok")
     /\ (o.tos = "skip") <=> (o.join # "ok")}

\* ListenMulticastUDP revision: bind and join inside the library call, then
\* setReuseAddr, then SetTOS
OutcomesLM ==
  {o \in Outcome :
     /\ o.bind # "skip"
     /\ (o.join = "skip") <=> (o.bind = "fail")
     /\ (o.reuse = "skip") <=> (o.join # "ok")
     /\ (o.tos = "skip") <=> (o.join # "ok")}

\* the call id returns ret, its steps having done o
Return(id, o, ret) ==
  /\ rets' = [rets EXCEPT ![id] = ret]
  /\ lastOut' = o

\* go tp.readDataPacket()
GoReadDataPacket(id) == [loop EXCEPT ![id] = [IdleLoop EXCEPT !.pc = "start"]]

OpenSock(id) == [sock EXCEPT ![id] = [state |-> "open", q |-> <<>>, closes |-> 0]]

\* ListenLC with the goroutine started before JoinGroup's result is looked at
ListenLC_GoBeforeJoin(id, o) ==
  /\ UNCHANGED <<setup, remoteAddrRtp>>
  /\ IF o.reuse = "fail" \/ o.bind = "fail"
     THEN /\ Return(id, o, "err")
          /\ UNCHANGED <<sock, dataConn, loop>>
     ELSE /\ sock' = OpenSock(id)
          /\ dataConn' = id
          /\ loop' = GoReadDataPacket(id)
          /\ Return(id, o, IF o.join = "fail" THEN "err" ELSE "nil")

\* TransportMulticast.ListenOnTransports, ListenConfig revision
ListenLC(id, o) ==
  /\ UNCHANGED <<setup, remoteAddrRtp>>
  /\ IF o.reuse = "fail" \/ o.bind = "fail"
     THEN \* lc.ListenPacket failed (the Control hook's error fails it too)
          /\ Return(id, o, "err")
          /\ UNCHANGED <<sock, dataConn, loop>>
     ELSE /\ sock' = OpenSock(id)
          /\ dataConn' = id
          /\ IF o.join = "fail"
             THEN /\ Return(id, o, "err")
                  /\ UNCHANGED loop
             ELSE \* SetMulticastLoopback and SetTOS failures are not returned
                  /\ loop' = GoReadDataPacket(id)
                  /\ Return(id, o, "nil")

\* TransportMulticast.ListenOnTransports, ListenMulticastUDP revision
ListenLM(id, o) ==
  /\ UNCHANGED <<setup, remoteAddrRtp>>
  /\ IF o.bind = "fail" \/ o.join = "fail"
     THEN \* tp.dataConn, err = net.ListenMulticastUDP(...): nil conn, error
          /\ dataConn' = Nil
          /\ Return(id, o, "err")
          /\ UNCHANGED <<sock, loop>>
     ELSE \* setReuseAddr and SetTOS failures are printed, not returned
          /\ sock' = OpenSock(id)
          /\ dataConn' = id
          /\ loop' = GoReadDataPacket(id)
          /\ Return(id, o, "nil")

\* TransportTCP.ListenOnTransports: starts the setup goroutine, returns nil
ListenTCP(id) ==
  /\ setup' = [setup EXCEPT ![id] = [pc |-> "start", lnOpen |-> FALSE]]
  /\ Return(id, NoOut, "nil")
  /\ UNCHANGED <<sock, dataConn, loop, remoteAddrRtp>>

ListenOnTransports ==
  /\ ~crashed
  /\ ncalls < MaxListen
  /\ ncalls' = ncalls + 1
  /\ LET id == ncalls + 1 IN
       \/ backend = "MulticastLC" /\ \E o \in OutcomesLC : ListenLC(id, o)
       \/ backend = "MulticastLM" /\ \E o \in OutcomesLM : ListenLM(id, o)
       \/ backend = "TCP" /\ ListenTCP(id)
  /\ UNCHANGED <<config, callUpper, dataRecvStop, ctrlRecvStop, transportEnd,
                 frames, arrived, stopReq, late, chan, upcall, crashed>>

(* ----------------------- TCP setup goroutine --------------------------- *)
\* net.ListenTCP in the goroutine: on error the goroutine just returns
SetupListen(id, ok) ==
  /\ ~crashed
  /\ lastOut' = NoOut
  /\ setup[id].pc = "start"
  /\ setup' = [setup EXCEPT ![id] =
                 IF ok THEN [pc |-> "accept", lnOpen |-> TRUE]
                       ELSE [pc |-> "listenFailed", lnOpen |-> FALSE]]
  /\ UNCHANGED <<config, fields, sock, loop, ghost, chan, upcall, crashed>>

\* ln.AcceptTCP returns; the error is not checked: on failure tp.dataConn holds
\* a nil connection, RemoteAddr() is nil and RemoteAddr().Network() panics
SetupAccept(id, ok) ==
  /\ ~crashed
  /\ lastOut' = NoOut
  /\ setup[id].pc = "accept"
  /\ IF ok
     THEN /\ sock' = OpenSock(id)
          /\ dataConn' = id
          /\ remoteAddrRtp' = PeerAddr
          /\ setup' = [setup EXCEPT ![id] = [pc |-> "done", lnOpen |-> FALSE]]
          /\ loop' = GoReadDataPacket(id)
          /\ UNCHANGED crashed
     ELSE /\ dataConn' = Nil
          /\ setup' = [setup EXCEPT ![id].pc = "panic"]
          /\ crashed' = TRUE
          /\ UNCHANGED <<sock, remoteAddrRtp, loop>>
  /\ UNCHANGED <<config, callUpper, dataRecvStop, ctrlRecvStop, transportEnd,
                 ghost, chan, upcall>>

(* --------------------------- owner's calls ----------------------------- *)
\* the loop l is inside its for-loop
InLoop(l) == loop[l].pc \in {"read", "check", "deliver", "incall"}

SetCallUpper(upper) ==
  /\ ~crashed
  /\ lastOut' = NoOut
  /\ callUpper' = upper
  /\ UNCHANGED <<config, dataRecvStop, ctrlRecvStop, transportEnd, dataConn,
                 remoteAddrRtp, procs, ghost, chan, upcall, crashed>>

SetEndChannel(ch) ==
  /\ ~crashed
  /\ lastOut' = NoOut
  /\ transportEnd' = ch
  /\ UNCHANGED <<config, callUpper, dataRecvStop, ctrlRecvStop, dataConn,
                 remoteAddrRtp, procs, ghost, chan, upcall, crashed>>

CloseRecv ==
  /\ ~crashed
  /\ lastOut' = NoOut
  /\ dataRecvStop' = TRUE
  /\ ctrlRecvStop' = TRUE
  /\ stopReq' = stopReq \cup {id \in Ids : rets[id] = "nil" /\ transportEnd = "ch"}
  /\ late' = [l \in Ids |-> IF InLoop(l) /\ late[l] = -1 THEN 0 ELSE late[l]]
  /\ UNCHANGED <<config, callUpper, transportEnd, dataConn, remoteAddrRtp, procs,
                 ncalls, rets, frames, arrived, chan, upcall, crashed>>

(* ------------------------------ the peer ------------------------------- *)
\* a datagram the peer sends to the group reaches every socket bound to the
\* port and joined to the group
ArriveUDP(p) ==
  /\ backend # "TCP"
  /\ \E s \in Ids : sock[s].state = "open"
  /\ sock' = [s \in Ids |->
               IF sock[s].state = "open"
               THEN [sock[s] EXCEPT !.q = Append(@, [data |-> p, from |-> PeerAddr])]
               ELSE sock[s]]
  /\ UNCHANGED frames

\* the peer writes one frame on the TCP connection s: its bytes join the stream
ArriveTCP(s, p) ==
  /\ backend = "TCP"
  /\ sock[s].state = "open"
  /\ sock' = [sock EXCEPT ![s].q = @ \o Frame(p)]
  /\ frames' = [frames EXCEPT ![s] = Append(@, p)]

Arrive ==
  /\ ~crashed
  /\ lastOut' = NoOut
  /\ arrived < MaxArrive
  /\ arrived' = arrived + 1
  /\ \/ \E p \in UdpPayloads : ArriveUDP(p)
     \/ \E s \in Ids, p \in TcpPayloads : ArriveTCP(s, p)
  /\ UNCHANGED <<config, fields, loop, setup, ncalls, rets, stopReq, late,
                 chan, upcall, crashed>>


(* --------------------------- receive loop ------------------------------ *)
\* value the loop of a kind sends on the end channel
EndValue(kind) ==
  IF kind = "data" THEN DataTransportRecvStopped ELSE CtrlTransportRecvStopped

\* tp.dataRecvStop = false, first statement of readDataPacket
LoopStart(l) ==
  /\ ~crashed
  /\ lastOut' = NoOut
  /\ loop[l].pc = "start"
  /\ dataRecvStop' = FALSE
  /\ loop' = [loop EXCEPT ![l].pc = "read"]
  /\ UNCHANGED <<config, callUpper, ctrlRecvStop, transportEnd, dataConn,
                 remoteAddrRtp, sock, setup, ghost, chan, upcall, crashed>>

\* number of bytes of the frames with the given payloads
RECURSIVE StreamLen(_)
StreamLen(ps) == IF ps = <<>> THEN 0 ELSE Len(Frame(Head(ps))) + StreamLen(Tail(ps))

\* a read that fails: the deadline expired, or a hard error
ReadFailed(l, c, e) ==
  /\ loop' = [loop EXCEPT ![l].pc = "check", ![l].n = 0, ![l].err = e,
                          ![l].conn = c,
                          ![l].conns = IF c = Nil THEN @ ELSE @ \cup {c}]
  /\ UNCHANGED sock

\* ReadFromUDP: one datagram, cut to the buffer's size
ReadUDP(l, c) ==
  LET d == Head(sock[c].q)
      n == Min(Len(d.data), defaultBufferSize) IN
  /\ loop' = [loop EXCEPT ![l].pc = "check", ![l].n = n, ![l].err = "nil",
                          ![l].buf = Slice(d.data, 0, n), ![l].addr = d.from,
                          ![l].conn = c, ![l].conns = @ \cup {c}]
  /\ sock' = [sock EXCEPT ![c].q = Tail(@)]

\* Read on the TCP connection: some non-empty prefix of the bytes in the
\* stream, at most the buffer's size
ReadTCP(l, c, n) ==
  /\ loop' = [loop EXCEPT ![l].pc = "check", ![l].n = n, ![l].err = "nil",
                          ![l].buf = Slice(sock[c].q, 0, n),
                          ![l].off = StreamLen(frames[c]) - Len(sock[c].q),
                          ![l].conn = c, ![l].conns = @ \cup {c}]
  /\ sock' = [sock EXCEPT ![c].q = Slice(@, n, Len(@))]

\* SetReadDeadline(now + 20ms) and the read on tp.dataConn
LoopRead(l) ==
  /\ ~crashed
  /\ lastOut' = NoOut
  /\ loop[l].pc = "read"
  /\ LET c == dataConn IN
       IF c = Nil \/ sock[c].state # "open"
       THEN ReadFailed(l, c, "hard")
       ELSE \/ ReadFailed(l, c, "hard")
            \/ sock[c].q = <<>> /\ ReadFailed(l, c, "timeout")
            \/ sock[c].q # <<>> /\ backend # "TCP" /\ ReadUDP(l, c)
            \/ /\ sock[c].q # <<>> /\ backend = "TCP"
               /\ \E n \in 1..Min(Len(sock[c].q), defaultBufferSize) : ReadTCP(l, c, n)
  /\ UNCHANGED <<config, fields, setup, ghost, chan, upcall, crashed>>

\* the packet a multicast loop builds from a datagram of n bytes
PacketUDP(kind, n, buf, addr) ==
  [inUse |-> n,
   buffer |-> Copy(newPacket.buffer, Slice(buf, 0, n)),
   fromAddr |-> [IpAddr |-> addr.IP,
                 DataPort |-> IF kind = "data" THEN addr.Port ELSE 0,
                 CtrlPort |-> IF kind = "data" THEN 0 ELSE addr.Port]]

\* the packet the TCP loop builds from the n bytes of one Read; buf[2:n]
\* panics when n < 2, after inUse was set
PacketTCP(n, buf, addr) ==
  [inUse |-> n - 2,
   buffer |-> IF n >= 2 THEN Copy(newPacket.buffer, Slice(buf, 2, n))
                        ELSE newPacket.buffer,
   fromAddr |-> [IpAddr |-> addr.IP, DataPort |-> addr.Port, CtrlPort |-> 0]]

BuildPacket(l) ==
  IF backend = "TCP"
  THEN PacketTCP(loop[l].n, loop[l].buf, remoteAddrRtp)
  ELSE PacketUDP("data", loop[l].n, loop[l].buf, loop[l].addr)

\* the locals of one iteration, forgotten
Cleared(r) == [r EXCEPT !.n = 0, !.err = "nil", !.buf = <<>>, !.addr = NoAddr]
Forgotten(r) == [Cleared(r) EXCEPT !.off = 0, !.conn = Nil, !.rp = NoPkt]

\* LoopCheck with the timeout test placed before the test of the stop flag:
\* a read that timed out goes on to the next read whatever the flag says
LoopCheck_TimeoutFirst(l) ==
  /\ ~crashed
  /\ lastOut' = NoOut
  /\ loop[l].pc = "check"
  /\ IF loop[l].err = "timeout"
     THEN loop' = [loop EXCEPT ![l] = [Forgotten(@) EXCEPT !.pc = "read"]]
     ELSE IF dataRecvStop
     THEN loop' = [loop EXCEPT ![l] = [Forgotten(@) EXCEPT !.pc = "close"]]
     ELSE IF loop[l].err # "nil"
     THEN loop' = [loop EXCEPT ![l] = [Forgotten(@) EXCEPT !.pc = "close"]]
     ELSE IF backend = "TCP" /\ loop[l].n < 2
     THEN loop' = [loop EXCEPT ![l] = [Cleared(@) EXCEPT !.pc = "panic",
                                                        !.rp = BuildPacket(l)]]
     ELSE loop' = [loop EXCEPT ![l] = [Cleared(@) EXCEPT !.pc = "deliver",
                                                        !.rp = BuildPacket(l)]]
  /\ crashed' = (loop'[l].pc = "panic")
  /\ late' = IF InLoop(l)' THEN late ELSE [late EXCEPT ![l] = -1]
  /\ UNCHANGED <<config, fields, sock, setup, ncalls, rets, frames, arrived,
                 stopReq, chan, upcall>>

\* after the read: stop flag, timeout, other error, else build the packet
LoopCheck(l) ==
  /\ ~crashed
  /\ lastOut' = NoOut
  /\ loop[l].pc = "check"
  /\ IF dataRecvStop
     THEN loop' = [loop EXCEPT ![l] = [Forgotten(@) EXCEPT !.pc = "close"]]
     ELSE IF loop[l].err = "timeout"
     THEN loop' = [loop EXCEPT ![l] = [Forgotten(@) EXCEPT !.pc = "read"]]
     ELSE IF loop[l].err # "nil"
     THEN loop' = [loop EXCEPT ![l] = [Forgotten(@) EXCEPT !.pc = "close"]]
     ELSE IF backend = "TCP" /\ loop[l].n < 2
     THEN loop' = [loop EXCEPT ![l] = [Cleared(@) EXCEPT !.pc = "panic",
                                                        !.rp = BuildPacket(l)]]
     ELSE loop' = [loop EXCEPT ![l] = [Cleared(@) EXCEPT !.pc = "deliver",
                                                        !.rp = BuildPacket(l)]]
  /\ crashed' = (loop'[l].pc = "panic")
  /\ late' = IF InLoop(l)' THEN late ELSE [late EXCEPT ![l] = -1]
  /\ UNCHANGED <<config, fields, sock, setup, ncalls, rets, frames, arrived,
                 stopReq, chan, upcall>>

\* one more OnRecvData call begun by the loop l (counted up to MaxLate, and
\* only once CloseRecv was called with the loop inside its for-loop)
Called(l) ==
  [late EXCEPT ![l] = IF @ = -1 THEN -1 ELSE Min(@ + 1, MaxLate)]

\* LoopDeliver with the callback run as "go tp.callUpper.OnRecvData(rp)": the
\* loop goes on to the next read while the upper layer still works
LoopDeliver_Async(l) ==
  /\ ~crashed
  /\ lastOut' = NoOut
  /\ loop[l].pc = "deliver"
  /\ loop' = [loop EXCEPT ![l] = [Forgotten(@) EXCEPT !.pc = "read"]]
  /\ upcall' = IF callUpper = "nil" THEN upcall
               ELSE [upcall EXCEPT ![l] = [to |-> callUpper, pkt |-> loop[l].rp]]
  /\ late' = IF callUpper = "nil" THEN late ELSE Called(l)
  /\ UNCHANGED <<config, fields, sock, setup, ncalls, rets, frames, arrived,
                 stopReq, chan, crashed>>

\* if tp.callUpper != nil { tp.callUpper.OnRecvData(rp) }: the call starts
LoopDeliver(l) ==
  /\ ~crashed
  /\ lastOut' = NoOut
  /\ loop[l].pc = "deliver"
  /\ IF callUpper = "nil"
     THEN /\ loop' = [loop EXCEPT ![l] = [Forgotten(@) EXCEPT !.pc = "read"]]
          /\ UNCHANGED <<upcall, late>>
     ELSE /\ loop' = [loop EXCEPT ![l].pc = "incall"]
          /\ upcall' = [upcall EXCEPT ![l] = [to |-> callUpper, pkt |-> loop[l].rp]]
          /\ late' = Called(l)
  /\ UNCHANGED <<config, fields, sock, setup, ncalls, rets, frames, arrived,
                 stopReq, chan, crashed>>

\* OnRecvData returns; its result is ignored
LoopReturn(l) ==
  /\ ~crashed
  /\ lastOut' = NoOut
  /\ loop[l].pc = "incall"
  /\ loop' = [loop EXCEPT ![l] = [Forgotten(@) EXCEPT !.pc = "read"]]
  /\ upcall' = [upcall EXCEPT ![l] = NoUpcall]
  /\ UNCHANGED <<config, fields, sock, setup, ghost, chan, crashed>>

\* tp.dataConn.Close() after the loop, then the operand of the send is read:
\* a send on a nil channel blocks for ever
LoopClose(l) ==
  /\ ~crashed
  /\ lastOut' = NoOut
  /\ loop[l].pc = "close"
  /\ loop' = [loop EXCEPT ![l].pc = IF transportEnd = "nil" THEN "blockedNil"
                                                            ELSE "sending"]
  /\ sock' = IF dataConn = Nil THEN sock
             ELSE [sock EXCEPT ![dataConn].state = "closed",
                               ![dataConn].q = <<>>,
                               ![dataConn].closes = @ + 1]
  /\ UNCHANGED <<config, fields, setup, ghost, chan, upcall, crashed>>

Msg(l) == [val |-> EndValue("data"), loop |-> l]

\* LoopSend with the send inside the loop: it is done again
LoopSend_Again(l) ==
  /\ ~crashed
  /\ lastOut' = NoOut
  /\ loop[l].pc = "sending"
  /\ Len(chanBuf) < chanCap
  /\ chanBuf' = Append(chanBuf, Msg(l))
  /\ loop' = [loop EXCEPT ![l].sends = @ + 1]
  /\ UNCHANGED <<config, fields, sock, setup, ghost, received, upcall, crashed>>

\* tp.transportEnd <- DataTransportRecvStopped completes into the buffer
LoopSend(l) ==
  /\ ~crashed
  /\ lastOut' = NoOut
  /\ loop[l].pc = "sending"
  /\ Len(chanBuf) < chanCap
  /\ chanBuf' = Append(chanBuf, Msg(l))
  /\ loop' = [loop EXCEPT ![l].pc = "done", ![l].sends = @ + 1]
  /\ UNCHANGED <<config, fields, sock, setup, ghost, received, upcall, crashed>>

(* ------------------------- owner's receive ----------------------------- *)
\* <-ch with a value in the buffer
OwnerRecvBuffered ==
  /\ ~crashed
  /\ lastOut' = NoOut
  /\ chanBuf # <<>>
  /\ received' = received \cup {Head(chanBuf)}
  /\ chanBuf' = Tail(chanBuf)
  /\ UNCHANGED <<config, fields, procs, ghost, upcall, crashed>>

\* <-ch meeting a sender blocked on the channel: the send completes
OwnerRecvFrom(l) ==
  /\ ~crashed
  /\ lastOut' = NoOut
  /\ loop[l].pc = "sending"
  /\ chanBuf = <<>>
  /\ received' = received \cup {Msg(l)}
  /\ loop' = [loop EXCEPT ![l].pc = "done", ![l].sends = @ + 1]
  /\ UNCHANGED <<config, fields, sock, setup, ghost, chanBuf, upcall, crashed>>

(* --------------------------- specification ----------------------------- *)
LoopStep(l) ==
  \/ LoopStart(l)
  \/ LoopRead(l)
  \/ LoopCheck(l)
  \/ LoopDeliver(l)
  \/ LoopReturn(l)
  \/ LoopClose(l)
  \/ LoopSend(l)

OwnerRecv == OwnerRecvBuffered \/ \E l \in Ids : OwnerRecvFrom(l)

Next ==
  \/ ListenOnTransports
  \/ \E id \in Ids, ok \in BOOLEAN : SetupListen(id, ok)
  \/ \E id \in Ids, ok \in BOOLEAN : SetupAccept(id, ok)
  \/ \E u \in {"nil", "upper"} : SetCallUpper(u)
  \/ SetEndChannel("ch")
  \/ CloseRecv
  \/ Arrive
  \/ \E l \in Ids : LoopStep(l)
  \/ OwnerRecv

Spec == Init /\ [][Next]_vars

\* the Go scheduler runs every runnable goroutine; the owner of the claim on
\* shutdown keeps receiving from the end channel
FairSpec ==
  /\ Spec
  /\ \A l \in Ids : WF_vars(LoopStep(l))
  /\ WF_vars(OwnerRecv)


(* ------------------------------ claims --------------------------------- *)
Started(l) == loop[l].pc # "none"
OwnerGot(l) == Msg(l) \in received
InChannel == {chanBuf[i] : i \in 1..Len(chanBuf)}

\* C1: once the owner has called CloseRecv, after a ListenOnTransports that
\* returned nil and with the end channel installed, it eventually receives the
\* completion value of every receive loop that was started.
C1_ShutdownCompletes ==
  \A l \in Ids : (l \in stopReq /\ Started(l)) ~> OwnerGot(l)

\* C2: when the owner has received a loop's completion value, every socket the
\* loop read from is closed, the loop is over and no OnRecvData call of it is
\* in progress.
C2_ClosedBeforeSignal ==
  \A l \in Ids :
    OwnerGot(l) =>
      /\ \A c \in loop[l].conns : sock[c].state = "closed"
      /\ loop[l].pc = "done"
      /\ upcall[l] = NoUpcall

RECURSIVE SumSends(_)
SumSends(S) ==
  IF S = {} THEN 0
  ELSE LET l == CHOOSE x \in S : TRUE IN loop[l].sends + SumSends(S \ {l})

\* C3: every loop sends at most one value on the end channel, the value is
\* DataTransportRecvStopped for a data loop, and every value that is in the
\* channel or was received was sent by a started loop: nothing else sends.
C3_OneTerminationValue ==
  /\ \A l \in Ids : loop[l].sends <= 1 /\ (loop[l].sends = 1 => Started(l))
  /\ \A m \in InChannel \cup received :
       m.val = DataTransportRecvStopped /\ loop[m.loop].sends = 1
  /\ Len(chanBuf) + Cardinality(received) = SumSends(Ids)

C3_Witness ==
  \E l \in Ids : loop[l].pc = "done" /\ loop[l].sends = 1 /\ OwnerGot(l)

\* C4: on every backend a failure to bind or listen on the data port is
\* returned as a non-nil error by the ListenOnTransports call that hit it.
C4_BindFailureReturned ==
  /\ lastOut.bind = "fail" => rets[ncalls] = "err"
  /\ \A id \in Ids : setup[id].pc = "listenFailed" => rets[id] = "err"

\* C5: however often ListenOnTransports is called, the instance has at most
\* one socket and one data receive loop, and no socket is closed twice.
C5_ListenIdempotent ==
  /\ Cardinality({l \in Ids : Started(l)}) <= 1
  /\ Cardinality({s \in Ids : sock[s].state # "none"}) <= 1
  /\ \A s \in Ids : sock[s].closes <= 1

\* the frame that starts at the byte offset off of a stream of frames (0: none)
RECURSIVE FrameAt(_, _, _)
FrameAt(ps, off, k) ==
  IF k > Len(ps) THEN 0
  ELSE IF off = 0 THEN k
  ELSE IF off < Len(Frame(ps[k])) THEN 0
  ELSE FrameAt(ps, off - Len(Frame(ps[k])), k + 1)

\* C6: every packet the TCP loop hands to OnRecvData is one frame of the
\* stream: inUse is the frame's length field and buffer[0:inUse] its payload.
C6_TcpFraming ==
  \A l \in Ids :
    (backend = "TCP" /\ upcall[l] # NoUpcall) =>
      LET k == FrameAt(frames[loop[l].conn], loop[l].off, 1)
          pkt == upcall[l].pkt IN
      /\ k # 0
      /\ pkt.inUse = Len(frames[loop[l].conn][k])
      /\ Slice(pkt.buffer, 0, pkt.inUse) = frames[loop[l].conn][k]

\* C7: every packet a receive loop builds has 0 <= inUse <= capacity(buffer)
\* and a fromAddr with the data port set and the control port zero.
C7_PacketInvariant ==
  \A l \in Ids :
    loop[l].rp # NoPkt =>
      /\ 0 <= loop[l].rp.inUse
      /\ loop[l].rp.inUse <= Len(loop[l].rp.buffer)
      /\ loop[l].rp.fromAddr.DataPort # 0
      /\ loop[l].rp.fromAddr.CtrlPort = 0

\* C8: a loop has at most one packet in flight and hands packets over in the
\* order read: while OnRecvData works on a packet the loop waits in that call,
\* the packet is the one it read last, and it starts no read (and holds no
\* later packet) before the call has returned.
C8_OneInFlightInOrder ==
  \A l \in Ids :
    /\ upcall[l] # NoUpcall =>
         loop[l].pc = "incall" /\ upcall[l].pkt = loop[l].rp
    /\ loop[l].pc \in {"read", "check"} => loop[l].rp = NoPkt

C8_Witness ==
  \E l \in Ids :
    /\ loop[l].pc = "incall"
    /\ upcall[l].pkt.inUse > 0
    /\ loop[l].conn # Nil
    /\ sock[loop[l].conn].q # <<>>

\* C9: when the multicast group join fails, ListenOnTransports returns an
\* error and its receive loop is not started, so the call's loop never sends a
\* termination value.
C9_JoinFailure ==
  /\ lastOut.join = "fail" => rets[ncalls] = "err"
  /\ \A id \in Ids :
       (backend # "TCP" /\ rets[id] = "err") =>
         /\ ~Started(id)
         /\ loop[id].sends = 0
         /\ Msg(id) \notin InChannel \cup received

C9_Witness ==
  /\ lastOut.join = "fail"
  /\ rets[ncalls] = "err"
  /\ \E l \in Ids : l # ncalls /\ Started(l)

\* C10: a failure of TOS marking or of SO_REUSEADDR during the multicast
\* ListenOnTransports does not abort setup: the call returns nil, the socket
\* is open and the data receive loop is started.
C10_BestEffortOptions ==
  (lastOut.tos = "fail" \/ lastOut.reuse = "fail") =>
    /\ rets[ncalls] = "nil"
    /\ sock[ncalls].state = "open"
    /\ loop[ncalls].pc = "start"

\* the loop l takes a step
Steps(l) == loop'[l] # loop[l]

\* C11: while the upper layer is the backend itself (SetCallUpper never called)
\* or nil, whatever a successful read returned is dropped without a crash and
\* without ending the loop: the loop builds the packet, hands it to nobody but
\* the backend's own OnRecvData, and goes back to reading.
C11_UnregisteredUpperDrops ==
  [][\A l \in Ids :
       (Steps(l) /\ callUpper \in {"self", "nil"} /\ ~dataRecvStop) =>
         /\ (loop[l].pc = "check" /\ loop[l].err = "nil") =>
              (loop'[l].pc = "deliver" /\ ~crashed')
         /\ loop[l].pc = "deliver" =>
              /\ loop'[l].pc \in {"incall", "read"}
              /\ upcall'[l].to \in {"none", "self"}
         /\ (loop[l].pc = "incall" /\ upcall[l].to = "self") =>
              (loop'[l].pc = "read" /\ upcall'[l] = NoUpcall)]_vars

\* the instance is closed: one of its loops has closed the socket and is over
Closed == \E l \in Ids : loop[l].pc = "done"

\* C12: once the instance is closed, no step opens a socket or starts a
\* receive loop on it.
C12_NoListenAfterClose ==
  [][Closed =>
       \A i \in Ids :
         /\ sock'[i].state = "open" => sock[i].state = "open"
         /\ Started(i)' => Started(i)]_vars

\* a goroutine that waits where no deadline bounds the wait: the setup
\* goroutine in AcceptTCP, a loop in the send on a nil or full end channel
InAccept(i) == setup[i].pc = "accept"
InSend(l) ==
  \/ loop[l].pc = "blockedNil"
  \/ loop[l].pc = "sending" /\ Len(chanBuf) >= chanCap

\* C13: a goroutine of the backend waits only in the deadline-bounded read of
\* a receive loop: never in the setup (the TCP listen/accept) and never in the
\* loop's final send on the end channel.
C13_SuspendsOnlyInRead ==
  \A i \in Ids : ~InAccept(i) /\ ~InSend(i)

\* the loop l has left its for-loop
Left(l) == loop[l].pc \in {"close", "sending", "blockedNil", "done"}

\* C14 as stated: no loop starts a read while the stop flag is set.
C14_NoReadAfterStop ==
  [][\A l \in Ids : (loop[l].pc = "read" /\ Steps(l)) => ~dataRecvStop]_vars

\* C14 as amended: the flag is examined when the read has returned, not
\* before it; a loop that finds it set then breaks out, delivers nothing of
\* what that read returned, and never reads again.
C14_StopSeenAfterRead ==
  [][\A l \in Ids :
       /\ (loop[l].pc = "check" /\ Steps(l) /\ dataRecvStop) =>
            (loop'[l].pc = "close" /\ loop'[l].rp = NoPkt /\ upcall' = upcall)
       /\ Left(l) => Left(l)']_vars

C14_Witness ==
  \E l \in Ids :
    /\ loop[l].pc = "close"
    /\ dataRecvStop
    /\ dataConn # Nil
    /\ sock[dataConn].state = "open"
    /\ sock[dataConn].q = <<>>
    /\ arrived > 0

\* C15: with the stop flag not set, a read that timed out makes the loop read
\* again: nothing is delivered, nothing is sent; a read that failed otherwise
\* ends the loop: the loop leaves the for-loop and never reads again, its
\* close leaves every socket it read from closed, and it sends at most one
\* termination value.
C15_FailureSemantics ==
  [][\A l \in Ids :
       /\ (loop[l].pc = "check" /\ Steps(l) /\ ~dataRecvStop) =>
            /\ loop[l].err = "timeout" =>
                 /\ loop'[l].pc = "read"
                 /\ loop'[l].sends = loop[l].sends
                 /\ UNCHANGED <<upcall, chanBuf, received>>
            /\ loop[l].err = "hard" => loop'[l].pc = "close"
       /\ Left(l) => Left(l)'
       /\ (loop[l].pc = "close" /\ Steps(l)) =>
            \A c \in loop[l].conns : sock'[c].state = "closed"
       /\ loop'[l].sends <= 1]_vars

\* the loop l is running: started and not yet past its close
Running(l) == loop[l].pc = "start" \/ InLoop(l) \/ loop[l].pc = "close"

\* C16: while a receive loop is running, no step writes a field the loop
\* reads other than the stop flags and the end channel: callUpper, dataConn
\* and the remote address stay as they are.
C16_OnlyFlagsAndChannelShared ==
  [][(\E l \in Ids : Running(l)) =>
       UNCHANGED <<callUpper, dataConn, remoteAddrRtp>>]_vars

\* C17: in the TCP backend the setup of a call that has accepted its
\* connection has closed the listener and started the call's one receive
\* loop, no loop runs without that accept, and the loop reads from no
\* connection but the one its call accepted.
C17_TcpOneConnection ==
  \A id \in Ids :
    backend = "TCP" =>
      /\ setup[id].pc = "done" =>
           (~setup[id].lnOpen /\ sock[id].state # "none" /\ Started(id))
      /\ Started(id) => setup[id].pc = "done"
      /\ loop[id].conns \subseteq {id}

\* C18: while a started receive loop has not terminated, a stop flag that is
\* set stays set: no step resets dataRecvStop to false.
C18_StopNeverLost ==
  [][(dataRecvStop /\ \E l \in Ids : Running(l)) => dataRecvStop']_vars

\* C20: when a multicast ListenOnTransports has returned an error, the socket
\* the call opened is not open any more.
C20_NoLeakOnFailedSetup ==
  \A id \in Ids :
    (backend # "TCP" /\ rets[id] = "err") => sock[id].state # "open"

\* C19: a loop that was inside its for-loop when CloseRecv was called begins
\* at most one OnRecvData call afterwards, and none of its later checks lets
\* what a read returned through: it builds no packet from it.
C19_AtMostOneLateDelivery ==
  [][\A l \in Ids :
       late[l] >= 0 =>
         /\ late'[l] <= 1
         /\ (loop[l].pc = "check" /\ Steps(l)) => loop'[l].rp = NoPkt]_vars

\* the setup goroutine of the call id is past its AcceptTCP
Accepted(id) == setup[id].pc \in {"done", "panic"}

\* C21: in the TCP backend, whatever AcceptTCP returned, the setup goroutine
\* that is past it has not panicked, has closed the listener, and has started
\* a receive loop only on a connection that exists.
C21_AcceptFailureHandled ==
  \A id \in Ids :
    (backend = "TCP" /\ Accepted(id)) =>
      /\ setup[id].pc # "panic"
      /\ ~setup[id].lnOpen
      /\ Started(id) => sock[id].state # "none"

====
